---- MODULE Spec2Model ----
(***************************************************************************)
(* Model of arriba's blacklist filter (filter_blacklisted_ranges.cpp):     *)
(* the rule-token parser, the per-item matching function, the bucketed     *)
(* index over the fusions and the driver that streams the blacklist.       *)
(*                                                                         *)
(* Text is modelled character by character: a string is a sequence of      *)
(* one-character strings, an istringstream is a buffer with a read         *)
(* position and its eofbit.                                                *)
(***************************************************************************)
EXTENDS Integers, Sequences, FiniteSets, TLC

\* ------------------------------------------------------------------------
\* Bounds of the model
\* ------------------------------------------------------------------------

\* largest max_mate_gap tried
MaxGap == 1
\* number of fusions in the collection handed to the filter
NumFusions == 2
\* largest number of lines in the blacklist file
MaxLines == 2
\* largest 1-based coordinate written in the tokens of the parser runs
MaxPos == 4
\* largest 0-based coordinate of genes, ranges and breakpoints in the matching runs
MaxCoord == 5

\* ------------------------------------------------------------------------
\* Types of common.hpp, as the source uses them
\* ------------------------------------------------------------------------

FORWARD == "FORWARD"
REVERSE == "REVERSE"
UPSTREAM == "UPSTREAM"
DOWNSTREAM == "DOWNSTREAM"

\* fusion.filter: NULL, or the name of the filter that discarded the fusion
NULL == "NULL"
FILTER_blacklist == "blacklist"
\* the tag of some earlier filter of the pipeline
FILTER_other == "other"

\* enum blacklist_item_type_t
BLACKLIST_RANGE == "RANGE"
BLACKLIST_POSITION == "POSITION"
BLACKLIST_GENE == "GENE"
BLACKLIST_ANY == "ANY"
BLACKLIST_SPLIT_READ_DONOR == "SPLIT_READ_DONOR"
BLACKLIST_SPLIT_READ_ACCEPTOR == "SPLIT_READ_ACCEPTOR"
BLACKLIST_SPLIT_READ_ANY == "SPLIT_READ_ANY"
BLACKLIST_DISCORDANT_MATES == "DISCORDANT_MATES"
BLACKLIST_READ_THROUGH == "READ_THROUGH"
BLACKLIST_LOW_SUPPORT == "LOW_SUPPORT"
BLACKLIST_FILTER_SPLICED == "FILTER_SPLICED"
BLACKLIST_NOT_BOTH_SPLICED == "NOT_BOTH_SPLICED"

\* struct blacklist_item_t.  A field the parser has not assigned holds the
\* placeholder below; no path of the source reads such a field.
UnsetItem ==
  [type |-> "unset", strand_defined |-> FALSE, strand |-> FORWARD,
   contig |-> -1, start |-> 0, end |-> 0, gene |-> 0]

\* ------------------------------------------------------------------------
\* The catalogs handed to the filter
\* ------------------------------------------------------------------------

\* contigs_t: contig name -> contig id
ContigNames == { <<"c">>, <<"d">> }
ContigOf(name) == IF name = <<"c">> THEN 0 ELSE 1

\* the genes of the annotation; a gene_t is a pointer, modelled by the id
GeneG == [id |-> 1, contig |-> 0, start |-> 900, end |-> 1100]
GeneK == [id |-> 2, contig |-> 1, start |-> 299990, end |-> 300010]
GeneM == [id |-> 3, contig |-> 0, start |-> 100000, end |-> 100050]
\* unordered_map<string,gene_t>: gene name -> gene
GeneNames == { <<"g">>, <<"k">>, <<"m">> }
GeneOf(name) == IF name = <<"g">> THEN GeneG ELSE IF name = <<"k">> THEN GeneK ELSE GeneM

\* ------------------------------------------------------------------------
\* Characters and streams
\* ------------------------------------------------------------------------

Digits == <<"0", "1", "2", "3", "4", "5", "6", "7", "8", "9">>
IsDigit(ch) == \E i \in 1..10 : Digits[i] = ch
DigitVal(ch) == CHOOSE v \in 0..9 : Digits[v + 1] = ch

\* std::replace(range.begin(), range.end(), from, to)
Replace(s, from, to) == [i \in 1..Len(s) |-> IF s[i] = from THEN to ELSE s[i]]

\* range.find(ch) != string::npos
Contains(s, ch) == \E i \in 1..Len(s) : s[i] = ch

\* the position of the first character at or after i that is not a blank
\* (Len(s) + 1 at the end of the text)
RECURSIVE SkipWs(_, _)
SkipWs(s, i) == IF i <= Len(s) /\ s[i] = " " THEN SkipWs(s, i + 1) ELSE i

\* the position after the run of non-blank characters that starts at i
RECURSIVE WordEnd(_, _)
WordEnd(s, i) == IF i <= Len(s) /\ s[i] # " " THEN WordEnd(s, i + 1) ELSE i

\* the position after the run of digits that starts at i
RECURSIVE DigitsEnd(_, _)
DigitsEnd(s, i) == IF i <= Len(s) /\ IsDigit(s[i]) THEN DigitsEnd(s, i + 1) ELSE i

\* the value of the decimal digits s[i..j-1], read after the value acc
RECURSIVE DigitsValue(_, _, _, _)
DigitsValue(s, i, j, acc) ==
  IF i >= j THEN acc ELSE DigitsValue(s, i + 1, j, 10 * acc + DigitVal(s[i]))

\* iss >> word on the stream [buf, pos, eof]: blanks are skipped, the word runs
\* to the next blank; reaching the end of the text sets eofbit, and a stream
\* whose eofbit is set extracts nothing.
ReadWord(strm) ==
  LET b == SkipWs(strm.buf, strm.pos)
      e == WordEnd(strm.buf, b)
  IN  IF strm.eof \/ b > Len(strm.buf)
        THEN [ok |-> FALSE, word |-> <<>>, strm |-> [strm EXCEPT !.eof = TRUE]]
        ELSE [ok |-> TRUE, word |-> SubSeq(strm.buf, b, e - 1),
              strm |-> [buf |-> strm.buf, pos |-> e, eof |-> e > Len(strm.buf)]]

\* iss >> position_t: blanks, an optional sign, then at least one digit
ReadInt(strm) ==
  LET b == SkipWs(strm.buf, strm.pos)
      signed == b <= Len(strm.buf) /\ strm.buf[b] \in {"+", "-"}
      d == IF signed THEN b + 1 ELSE b
      e == DigitsEnd(strm.buf, d)
      v == DigitsValue(strm.buf, d, e, 0)
  IN  IF strm.eof \/ e = d
        THEN [ok |-> FALSE, val |-> 0, strm |-> strm]
        ELSE [ok |-> TRUE,
              val |-> IF signed /\ strm.buf[b] = "-" THEN -v ELSE v,
              strm |-> [buf |-> strm.buf, pos |-> e, eof |-> e > Len(strm.buf)]]

\* iss.str(text): a new buffer read from its start; the state flags stay
StreamStr(strm, text) == [buf |-> text, pos |-> 1, eof |-> strm.eof]

\* ------------------------------------------------------------------------
\* parse_range
\* ------------------------------------------------------------------------

\* the strand prefix of the contig word: <<strand_defined, strand, name>>
StrandPrefix(word) ==
  IF word[1] = "+" THEN <<TRUE, FORWARD, Tail(word)>>
  ELSE IF word[1] = "-" THEN <<TRUE, REVERSE, Tail(word)>>
  ELSE <<FALSE, FORWARD, word>>

\* the '-' test that chooses between chr:start-end and chr:position; it is
\* made on the whole text, strand prefix included
HasRangeSeparator(range) == Contains(range, "-")

\* the outcome of parse_range: its result and the item as it leaves it
ParseResult(ok, item) == [ok |-> ok, item |-> item]

\* start and end as read by the two extractions of chr:start-end
StartEndRead(s, e, item) ==
  IF ~s.ok \/ ~e.ok
    THEN ParseResult(FALSE, item)
    ELSE ParseResult(TRUE, [item EXCEPT !.start = s.val - 1, !.end = e.val - 1])

\* the second extraction, after the first
EndAfterStart(s, item) == StartEndRead(s, ReadInt(s.strm), item)

\* the coordinates of chr:start-end: the text is read again from its start,
\* the contig is discarded, start and end follow
ParseStartEnd(range, strm0, item) ==
  EndAfterStart(ReadInt(ReadWord(StreamStr(strm0, Replace(range, "-", " "))).strm), item)

\* PositionRead without the conversion to a zero-based coordinate
PositionReadOneBased(s, item) ==
  IF ~s.ok
    THEN ParseResult(FALSE, item)
    ELSE ParseResult(TRUE, [item EXCEPT !.start = s.val, !.end = s.val])

\* the coordinate as read by the extraction of chr:position
PositionRead(s, item) ==
  IF ~s.ok
    THEN ParseResult(FALSE, item)
    ELSE ParseResult(TRUE, [item EXCEPT !.start = s.val - 1, !.end = s.val - 1])

\* the coordinate of chr:position, read from the stream the contig came from
ParsePosition(strm, item) == PositionRead(ReadInt(strm), item)

\* the contig lookup, then the coordinates; p is the strand prefix of the
\* contig word, strm the stream after that word
ParseContigAndCoordinates(range, strm, p, item) ==
  IF p[3] \notin ContigNames THEN ParseResult(FALSE, item)
  ELSE IF HasRangeSeparator(range)
    THEN ParseStartEnd(range, strm, [item EXCEPT !.contig = ContigOf(p[3])])
    ELSE ParsePosition(strm, [item EXCEPT !.contig = ContigOf(p[3])])

\* the strand prefix sets strand_defined and strand
ParseStrand(range, strm, p, item0) ==
  ParseContigAndCoordinates(range, strm, p,
                            [item0 EXCEPT !.strand_defined = p[1], !.strand = p[2]])

\* the contig word w has been extracted from the text
ParseAfterContigWord(range, w, item0) ==
  IF ~w.ok THEN ParseResult(FALSE, item0)
  ELSE ParseStrand(range, w.strm, StrandPrefix(w.word), item0)

\* the text with its ':' replaced by blanks
ParseRangeText(range, item0) ==
  ParseAfterContigWord(range, ReadWord([buf |-> range, pos |-> 1, eof |-> FALSE]), item0)

\* bool parse_range(string range, contigs, blacklist_item)
ParseRange(text, item0) == ParseRangeText(Replace(text, ":", " "), item0)

\* ------------------------------------------------------------------------
\* parse_blacklist_item
\* ------------------------------------------------------------------------

\* the keywords of the rule language
KW_any ==
  <<"a", "n", "y">>
KW_split_read_donor ==
  <<"s", "p", "l", "i", "t", "_", "r", "e", "a", "d", "_", "d", "o", "n", "o", "r">>
KW_split_read_acceptor ==
  <<"s", "p", "l", "i", "t", "_", "r", "e", "a", "d", "_", "a", "c", "c", "e", "p", "t", "o", "r">>
KW_split_read_any ==
  <<"s", "p", "l", "i", "t", "_", "r", "e", "a", "d", "_", "a", "n", "y">>
KW_discordant_mates ==
  <<"d", "i", "s", "c", "o", "r", "d", "a", "n", "t", "_", "m", "a", "t", "e", "s">>
KW_read_through ==
  <<"r", "e", "a", "d", "_", "t", "h", "r", "o", "u", "g", "h">>
KW_low_support ==
  <<"l", "o", "w", "_", "s", "u", "p", "p", "o", "r", "t">>
KW_filter_spliced ==
  <<"f", "i", "l", "t", "e", "r", "_", "s", "p", "l", "i", "c", "e", "d">>
KW_not_both_spliced ==
  <<"n", "o", "t", "_", "b", "o", "t", "h", "_", "s", "p", "l", "i", "c", "e", "d">>

KeywordType(text) ==
  CASE text = KW_any -> BLACKLIST_ANY
    [] text = KW_split_read_donor -> BLACKLIST_SPLIT_READ_DONOR
    [] text = KW_split_read_acceptor -> BLACKLIST_SPLIT_READ_ACCEPTOR
    [] text = KW_split_read_any -> BLACKLIST_SPLIT_READ_ANY
    [] text = KW_discordant_mates -> BLACKLIST_DISCORDANT_MATES
    [] text = KW_read_through -> BLACKLIST_READ_THROUGH
    [] text = KW_low_support -> BLACKLIST_LOW_SUPPORT
    [] text = KW_filter_spliced -> BLACKLIST_FILTER_SPLICED
    [] text = KW_not_both_spliced -> BLACKLIST_NOT_BOTH_SPLICED
    [] OTHER -> "unset"

\* the type of a parsed range: a single base or a range
RangeType(item) ==
  IF item.start = item.end THEN BLACKLIST_POSITION ELSE BLACKLIST_RANGE

\* the item of a gene name
GeneItem(g) ==
  [UnsetItem EXCEPT !.type = BLACKLIST_GENE, !.gene = g.id,
                    !.contig = g.contig, !.start = g.start, !.end = g.end]

\* the item of a text that parse_range has read
RangeItem(r) ==
  IF r.ok THEN ParseResult(TRUE, [r.item EXCEPT !.type = RangeType(r.item)])
          ELSE ParseResult(FALSE, r.item)

\* the item of a keyword, kw = KeywordType(text)
KeywordItem(kw) == ParseResult(TRUE, [UnsetItem EXCEPT !.type = kw])

\* bool parse_blacklist_item(text, blacklist_item, contigs, genes, allow_keyword)
ParseBlacklistItem(text, allow_keyword) ==
  IF allow_keyword /\ KeywordType(text) # "unset" THEN KeywordItem(KeywordType(text))
  ELSE IF text \in GeneNames THEN ParseResult(TRUE, GeneItem(GeneOf(text)))
  ELSE RangeItem(ParseRange(text, UnsetItem))

\* ------------------------------------------------------------------------
\* overlapping_fraction and matches_blacklist_item
\* ------------------------------------------------------------------------

\* float overlapping_fraction(start1, end1, start2, end2), kept as the exact
\* quotient num/den the source computes (range1 is the gene, range2 the item)
OverlappingFraction(start1, end1, start2, end2) ==
  IF start1 >= start2 /\ end1 <= end2 THEN
    [num |-> 1, den |-> 1]
  ELSE IF start1 >= start2 /\ start1 <= end2 THEN
    [num |-> start1 - start2, den |-> end1 - start1 + 1]
  ELSE IF end1 >= start2 /\ end1 <= end2 THEN
    [num |-> end2 - end1, den |-> end1 - start1 + 1]
  ELSE
    [num |-> 0, den |-> 1]

\* fraction > 0.5 (den is positive: a gene has start <= end).  The source
\* rounds the quotient to float first, which cannot move it across 0.5 for
\* a denominator below 2^24.
MoreThanHalf(frac) == 2 * frac.num > frac.den

\* the contig / strand gate shared by the POSITION and RANGE cases
ContigAndStrandMatch(item, fusion, which_breakpoint) ==
  LET contig == IF which_breakpoint = 1 THEN fusion.contig1 ELSE fusion.contig2
      strand == IF which_breakpoint = 1 THEN fusion.predicted_strand1
                                        ELSE fusion.predicted_strand2
  IN  /\ contig = item.contig
      /\ ~(item.strand_defined /\ ~fusion.predicted_strands_ambiguous
             /\ strand # item.strand)

\* WithinMateGap with the far end of the window excluded
WithinMateGapExclusive(direction, breakpoint, start, max_mate_gap) ==
  \/ direction = DOWNSTREAM /\ breakpoint <= start /\ breakpoint > start - max_mate_gap
  \/ direction = UPSTREAM /\ breakpoint >= start /\ breakpoint < start + max_mate_gap

\* the mate-gap window of a POSITION item, for a fusion without split reads
WithinMateGap(direction, breakpoint, start, max_mate_gap) ==
  \/ direction = DOWNSTREAM /\ breakpoint <= start /\ breakpoint >= start - max_mate_gap
  \/ direction = UPSTREAM /\ breakpoint >= start /\ breakpoint <= start + max_mate_gap

\* case BLACKLIST_POSITION
MatchesPosition(item, fusion, which_breakpoint, max_mate_gap) ==
  LET breakpoint == IF which_breakpoint = 1 THEN fusion.breakpoint1 ELSE fusion.breakpoint2
      direction == IF which_breakpoint = 1 THEN fusion.direction1 ELSE fusion.direction2
  IN  IF ~ContigAndStrandMatch(item, fusion, which_breakpoint) THEN FALSE
      ELSE IF breakpoint = item.start THEN TRUE
      ELSE IF fusion.split_reads1 + fusion.split_reads2 = 0
        THEN WithinMateGap(direction, breakpoint, item.start, max_mate_gap)
      ELSE FALSE

\* case BLACKLIST_RANGE
MatchesRange(item, fusion, which_breakpoint) ==
  LET gene == IF which_breakpoint = 1 THEN fusion.gene1 ELSE fusion.gene2
  IN  IF ~ContigAndStrandMatch(item, fusion, which_breakpoint) THEN FALSE
      ELSE MoreThanHalf(OverlappingFraction(gene.start, gene.end, item.start, item.end))

\* bool matches_blacklist_item(blacklist_item, fusion, which_breakpoint,
\*                             evalue_cutoff, max_mate_gap)
MatchesBlacklistItem(item, fusion, which_breakpoint, evalue_cutoff, max_mate_gap) ==
  CASE item.type = BLACKLIST_ANY -> TRUE
    [] item.type = BLACKLIST_SPLIT_READ_DONOR ->
         \/ which_breakpoint = 1 /\ fusion.discordant_mates + fusion.split_reads1 = 0
         \/ which_breakpoint = 2 /\ fusion.discordant_mates + fusion.split_reads2 = 0
    [] item.type = BLACKLIST_SPLIT_READ_ACCEPTOR ->
         \/ which_breakpoint = 1 /\ fusion.discordant_mates + fusion.split_reads2 = 0
         \/ which_breakpoint = 2 /\ fusion.discordant_mates + fusion.split_reads1 = 0
    [] item.type = BLACKLIST_SPLIT_READ_ANY -> fusion.discordant_mates = 0
    [] item.type = BLACKLIST_DISCORDANT_MATES ->
         fusion.split_reads1 + fusion.split_reads2 = 0
    [] item.type = BLACKLIST_READ_THROUGH -> fusion.is_read_through
    [] item.type = BLACKLIST_LOW_SUPPORT -> fusion.evalue > evalue_cutoff
    [] item.type = BLACKLIST_FILTER_SPLICED ->
         fusion.evalue > evalue_cutoff /\ fusion.spliced1 /\ fusion.spliced2
    [] item.type = BLACKLIST_NOT_BOTH_SPLICED -> ~fusion.spliced1 \/ ~fusion.spliced2
    [] item.type = BLACKLIST_GENE ->
         \/ which_breakpoint = 1 /\ fusion.gene1.id = item.gene
         \/ which_breakpoint = 2 /\ fusion.gene2.id = item.gene
    [] item.type = BLACKLIST_POSITION ->
         MatchesPosition(item, fusion, which_breakpoint, max_mate_gap)
    [] item.type = BLACKLIST_RANGE -> MatchesRange(item, fusion, which_breakpoint)
    [] OTHER -> FALSE

\* the test of one blacklist line against one fusion: the two items against
\* the two breakpoints, in either order
LineMatches(item1, item2, fusion, evalue_cutoff, max_mate_gap) ==
  \/ /\ MatchesBlacklistItem(item1, fusion, 1, evalue_cutoff, max_mate_gap)
     /\ MatchesBlacklistItem(item2, fusion, 2, evalue_cutoff, max_mate_gap)
  \/ /\ MatchesBlacklistItem(item1, fusion, 2, evalue_cutoff, max_mate_gap)
     /\ MatchesBlacklistItem(item2, fusion, 1, evalue_cutoff, max_mate_gap)

\* ------------------------------------------------------------------------
\* get_index_keys_from_range
\* ------------------------------------------------------------------------

\* const int bucket_size
bucket_size == 100000

\* the quotient of C++'s int division, which truncates toward zero
IntDiv(a, b) == IF a >= 0 THEN a \div b ELSE -((-a) \div b)

\* the first and the last bucket number of the loop
FirstBucket(start) == IntDiv(start, bucket_size)
LastBucket(end) == IntDiv(end + bucket_size - 1, bucket_size)

\* the keys the call appends to index_keys, in the order of the loop
GetIndexKeysFromRange(contig, start, end) ==
  LET lo == FirstBucket(start)
      hi == LastBucket(end)
  IN  [i \in 1..(IF hi >= lo THEN hi - lo + 1 ELSE 0) |->
         <<contig, (lo + i - 1) * bucket_size>>]

\* ------------------------------------------------------------------------
\* The blacklist files tried
\* ------------------------------------------------------------------------

\* decimal text of a number n >= 0, as the blacklist file writes it
RECURSIVE Decimal(_)
Decimal(n) == IF n < 10 THEN <<Digits[n + 1]>>
              ELSE Decimal(n \div 10) \o <<Digits[(n % 10) + 1]>>

\* the token [prefix]name:p and the token [prefix]name:p-q
PositionToken(prefix, name, p) == prefix \o name \o <<":">> \o Decimal(p)
RangeToken(prefix, name, p, q) == PositionToken(prefix, name, p) \o <<"-">> \o Decimal(q)

\* the lines of the blacklist file
Line_c1000_any == <<PositionToken(<<>>, <<"c">>, 1000), KW_any>>
Line_k_dm == << <<"k">>, KW_discordant_mates>>
Line_c100000_d1 ==
  <<PositionToken(<<>>, <<"c">>, 100000), PositionToken(<<>>, <<"d">>, 1)>>
Line_range_m == <<RangeToken(<<>>, <<"d">>, 299991, 300011), <<"m">> >>
Line_unknown_contig == <<PositionToken(<<>>, <<"x">>, 5), KW_any>>
Line_one_token == <<PositionToken(<<>>, <<"c">>, 1000), <<>> >>
Line_keyword_first == <<KW_any, KW_any>>
Line_comment == <<PositionToken(<<"#">>, <<"c">>, 1000), KW_any>>
LinePool ==
  {Line_c1000_any, Line_k_dm, Line_c100000_d1, Line_range_m,
   Line_unknown_contig, Line_one_token, Line_keyword_first, Line_comment}

\* parse_blacklist_item is a function of the token and allow_keyword alone:
\* the calls on the tokens of LinePool, each with the result it returns,
\* computed once
LinePoolTokens == { l[1] : l \in LinePool } \cup { l[2] : l \in LinePool }
LinePoolItems ==
  { <<t, ParseBlacklistItem(t[1], t[2])>> : t \in LinePoolTokens \X BOOLEAN }
TokenItem(text, allow_keyword) ==
  (CHOOSE e \in LinePoolItems : e[1] = <<text, allow_keyword>>)[2]

\* ------------------------------------------------------------------------
\* filter_blacklisted_ranges: the index, one blacklist line, the count
\* ------------------------------------------------------------------------

\* the range of a sequence
Range(seq) == { seq[i] : i \in 1..Len(seq) }

\* SkippedByIndex with the test of the genomic support inverted
SkippedByIndexWithSupport(fusion) ==
  fusion.filter # NULL /\ fusion.closest_genomic_breakpoint1 >= 0

\* the fusions the index skips: already filtered, and not recoverable by the
\* 'genomic_support' filter
SkippedByIndex(fusion) ==
  fusion.filter # NULL /\ fusion.closest_genomic_breakpoint1 < 0

\* FusionIndexKeys without the two gene spans: a fusion registered under
\* the keys of its breakpoints only
FusionIndexKeysBreakpointsOnly(fusion) ==
  GetIndexKeysFromRange(fusion.contig1, fusion.breakpoint1, fusion.breakpoint1)
    \o GetIndexKeysFromRange(fusion.contig2, fusion.breakpoint2, fusion.breakpoint2)

\* the keys one fusion is registered under: its two breakpoints and the
\* spans of its two genes
FusionIndexKeys(fusion) ==
  GetIndexKeysFromRange(fusion.contig1, fusion.breakpoint1, fusion.breakpoint1)
    \o GetIndexKeysFromRange(fusion.contig2, fusion.breakpoint2, fusion.breakpoint2)
    \o GetIndexKeysFromRange(fusion.contig1, fusion.gene1.start, fusion.gene1.end)
    \o GetIndexKeysFromRange(fusion.contig2, fusion.gene2.start, fusion.gene2.end)

\* fusions_by_coordinate[*index_key].insert(&fusion) for the keys of one
\* fusion, from key i on (the pointers are modelled by the positions
\* 1..Len(fs) in the collection); operator[] creates the set of a new key
RECURSIVE InsertUnderKeys(_, _, _, _)
InsertUnderKeys(idx, keys, i, f) ==
  IF i > Len(keys) THEN idx
  ELSE InsertUnderKeys(IF keys[i] \in DOMAIN idx
                         THEN [idx EXCEPT ![keys[i]] = @ \cup {f}]
                         ELSE idx @@ (keys[i] :> {f}),
                       keys, i + 1, f)

\* the first loop from fusion f on: a skipped fusion is registered nowhere
RECURSIVE IndexFrom(_, _, _)
IndexFrom(fs, f, idx) ==
  IF f > Len(fs) THEN idx
  ELSE IndexFrom(fs, f + 1,
                 IF SkippedByIndex(fs[f]) THEN idx
                 ELSE InsertUnderKeys(idx, FusionIndexKeys(fs[f]), 1, f))

\* fusions_by_coordinate after the first loop: key -> set of fusions
BuildIndex(fs) == IndexFrom(fs, 1, << >>)

\* line.empty() || line[0] == '#'; a line is the pair of its first two
\* blank-separated tokens, <<>> standing for a token that is not there
IsComment(line) == line[1] = <<>> \/ line[1][1] = "#"

\* ParsedLine testing the first token only: a second token that does not
\* resolve is taken for `any`
ParsedLineSecondOptional(p1, p2) ==
  <<p1.ok, p1.item, IF p2.ok THEN p2.item ELSE [UnsetItem EXCEPT !.type = BLACKLIST_ANY]>>

\* the two items of a line: <<parsed, item1, item2>>
ParsedLine(p1, p2) == <<p1.ok /\ p2.ok, p1.item, p2.item>>
ParseLine(line) == ParsedLine(TokenItem(line[1], FALSE), TokenItem(line[2], TRUE))

HasCoordinates(item) ==
  item.type \in {BLACKLIST_POSITION, BLACKLIST_RANGE, BLACKLIST_GENE}

\* the keys looked up for one item
ItemIndexKeys(item, max_mate_gap) ==
  IF HasCoordinates(item)
    THEN GetIndexKeysFromRange(item.contig, item.start - max_mate_gap,
                               item.end + max_mate_gap)
    ELSE <<>>

\* a std::set<fusion_t*> in iteration order
InOrder(set, n) == SelectSeq([f \in 1..n |-> f], LAMBDA f : f \in set)

\* AfterErase stepping once more after the erase (erase, then ++ on the
\* iterator the erase returned): the element after the erased one is skipped
AfterEraseSkipsNext(i) == i + 2

\* the element visited after the one at position i has been erased
\* (erase(fusion++)), and after one that stays (++fusion)
AfterErase(i) == i + 1
AfterKeep(i) == i + 1

\* one step of the inner loop on the element at position i of elems: the
\* fusion is tagged and erased from the set of this key, or left alone
VisitFusion(st, key, f, item1, item2, evalue_cutoff, max_mate_gap) ==
  IF LineMatches(item1, item2, st.fusions[f], evalue_cutoff, max_mate_gap)
    THEN [fusions |-> [st.fusions EXCEPT ![f].filter = FILTER_blacklist],
          index |-> [st.index EXCEPT ![key] = @ \ {f}],
          erased |-> TRUE]
    ELSE [fusions |-> st.fusions, index |-> st.index, erased |-> FALSE]

\* the inner loop over one bucket set: st = [fusions, index], elems the set
\* in iteration order as it was when the loop began, i the position in it
RECURSIVE ScanBucket(_, _, _, _, _, _, _, _)
ScanBucket(st, key, elems, i, item1, item2, evalue_cutoff, max_mate_gap) ==
  IF i > Len(elems) THEN [fusions |-> st.fusions, index |-> st.index]
  ELSE LET v == VisitFusion(st, key, elems[i], item1, item2, evalue_cutoff, max_mate_gap)
       IN  ScanBucket(v, key, elems, IF v.erased THEN AfterErase(i) ELSE AfterKeep(i),
                      item1, item2, evalue_cutoff, max_mate_gap)

\* the body of the loop over the index keys, for one key
ScanKey(st, key, item1, item2, evalue_cutoff, max_mate_gap) ==
  IF key \notin DOMAIN st.index THEN st
  ELSE ScanBucket(st, key, InOrder(st.index[key], Len(st.fusions)), 1,
                  item1, item2, evalue_cutoff, max_mate_gap)

\* the loop over the index keys of a line
RECURSIVE ScanKeys(_, _, _, _, _, _, _)
ScanKeys(st, keys, k, item1, item2, evalue_cutoff, max_mate_gap) ==
  IF k > Len(keys) THEN st
  ELSE ScanKeys(ScanKey(st, keys[k], item1, item2, evalue_cutoff, max_mate_gap),
                keys, k + 1, item1, item2, evalue_cutoff, max_mate_gap)

\* the body of the while loop after the line has been parsed into p
ApplyItems(st, p, evalue_cutoff, max_mate_gap) ==
  IF ~p[1] THEN st
  ELSE ScanKeys(st,
                ItemIndexKeys(p[2], max_mate_gap) \o ItemIndexKeys(p[3], max_mate_gap),
                1, p[2], p[3], evalue_cutoff, max_mate_gap)

\* one iteration of the while (getline ...) loop
ApplyLine(st, line, evalue_cutoff, max_mate_gap) ==
  IF IsComment(line) THEN st
  ELSE ApplyItems(st, ParseLine(line), evalue_cutoff, max_mate_gap)

\* the fusions that remain
CountRemaining(fs) == Cardinality({ f \in 1..Len(fs) : fs[f].filter = NULL })

\* the whole while loop, from line k of the file
RECURSIVE ApplyLines(_, _, _, _, _)
ApplyLines(st, lines, k, evalue_cutoff, max_mate_gap) ==
  IF k > Len(lines) THEN st
  ELSE ApplyLines(ApplyLine(st, lines[k], evalue_cutoff, max_mate_gap),
                  lines, k + 1, evalue_cutoff, max_mate_gap)

\* one call of filter_blacklisted_ranges: the fusions it leaves and its result
FilterBlacklistedRanges(fs, lines, evalue_cutoff, max_mate_gap) ==
  LET st == ApplyLines([fusions |-> fs, index |-> BuildIndex(fs)], lines, 1,
                       evalue_cutoff, max_mate_gap)
  IN  [fusions |-> st.fusions, remaining |-> CountRemaining(st.fusions)]

\* ------------------------------------------------------------------------
\* The fusions and the calls of the pure functions tried
\* ------------------------------------------------------------------------

\* a fusion with split reads on chr c at 1000 (gene g) and chr d at 100000;
\* gene k is the gene annotated to the second breakpoint
FusionA ==
  [contig1 |-> 0, breakpoint1 |-> 1000, gene1 |-> GeneG,
   direction1 |-> DOWNSTREAM, predicted_strand1 |-> FORWARD, spliced1 |-> TRUE,
   contig2 |-> 1, breakpoint2 |-> 100000, gene2 |-> GeneK,
   direction2 |-> UPSTREAM, predicted_strand2 |-> REVERSE, spliced2 |-> TRUE,
   predicted_strands_ambiguous |-> FALSE,
   split_reads1 |-> 1, split_reads2 |-> 0, discordant_mates |-> 1,
   evalue |-> 0, is_read_through |-> FALSE,
   filter |-> NULL, closest_genomic_breakpoint1 |-> -1]
\* the same fusion one base to the left
FusionB == [FusionA EXCEPT !.breakpoint1 = 999]
\* a fusion supported by discordant mates only, with breakpoints on a bucket
\* boundary and next to the start of a contig
FusionC ==
  [FusionA EXCEPT !.breakpoint1 = 100000, !.gene1 = GeneM, !.direction1 = UPSTREAM,
                  !.breakpoint2 = 1, !.split_reads1 = 0, !.discordant_mates = 2]
\* fusions an earlier filter has discarded, with and without genomic support
FusionD == [FusionB EXCEPT !.filter = FILTER_other, !.closest_genomic_breakpoint1 = 5]
FusionE == [FusionB EXCEPT !.filter = FILTER_other]
FusionPool == <<FusionA, FusionB, FusionC, FusionD, FusionE>>
\* the collections of n fusions.  The order of a collection carries no
\* meaning (a bucket set is ordered by address), so collections that differ
\* in order only are tried once.
FusionCollections(n) ==
  { [i \in 1..n |-> FusionPool[c[i]]] :
      c \in { d \in [1..n -> 1..Len(FusionPool)] :
                \A i \in 1..(n - 1) : d[i] <= d[i + 1] } }

\* the tokens of the parser runs
ParsePrefixes == { <<>>, <<"+">>, <<"-">> }
ParseNames == ContigNames \cup { <<"x">> }
ParsePositions == (1..MaxPos) \cup {10, 1000}
ParseTokens ==
  { PositionToken(pre, n, p) : pre \in ParsePrefixes, n \in ParseNames, p \in ParsePositions }
    \cup { RangeToken(pre, n, p, q) :
             pre \in ParsePrefixes, n \in ParseNames, p \in 1..MaxPos, q \in 1..MaxPos }
    \cup GeneNames
    \cup { KW_any, KW_split_read_donor, KW_split_read_acceptor, KW_split_read_any,
           KW_discordant_mates, KW_read_through, KW_low_support, KW_filter_spliced,
           KW_not_both_spliced }
    \cup { <<>>, <<"c">>, <<"-", "c">>, <<"c", ":">>, <<"c", ":", "z">>,
           <<"c", ":", "1", "-">>, <<"c", ":", "1", "-", "z">>, <<"z">> }

\* the items and fusions of the matching runs: the breakpoint under test
\* lies on contig 0 with predicted strand FORWARD, the other one on contig 1
MatchStrands == { <<FALSE, FORWARD>>, <<TRUE, FORWARD>>, <<TRUE, REVERSE>> }
MatchGenes ==
  { [id |-> 1, contig |-> 0, start |-> s, end |-> e] :
      s \in 0..MaxCoord, e \in 0..MaxCoord }
MatchItem(type, contig, strand, start, end) ==
  [UnsetItem EXCEPT !.type = type, !.contig = contig, !.strand_defined = strand[1],
                    !.strand = strand[2], !.start = start, !.end = end]
PositionItems ==
  { MatchItem(BLACKLIST_POSITION, c, sd, p, p) :
      c \in {0, 1}, sd \in MatchStrands, p \in 0..MaxCoord }
RangeItems ==
  { MatchItem(BLACKLIST_RANGE, c, sd, pq[1], pq[2]) :
      c \in {0, 1}, sd \in MatchStrands,
      pq \in { x \in (0..MaxCoord) \X (0..MaxCoord) : x[1] # x[2] } }
\* the fusion with the side under test placed at breakpoint `which`
MatchFusion(which, breakpoint, direction, gene, ambiguous, reads) ==
  IF which = 1
    THEN [FusionA EXCEPT !.contig1 = 0, !.breakpoint1 = breakpoint,
                         !.direction1 = direction, !.gene1 = gene,
                         !.predicted_strands_ambiguous = ambiguous,
                         !.split_reads1 = reads[1], !.split_reads2 = reads[2]]
    ELSE [FusionA EXCEPT !.contig1 = 1, !.contig2 = 0, !.predicted_strand1 = REVERSE,
                         !.predicted_strand2 = FORWARD, !.breakpoint2 = breakpoint,
                         !.direction2 = direction, !.gene2 = gene,
                         !.predicted_strands_ambiguous = ambiguous,
                         !.split_reads1 = reads[1], !.split_reads2 = reads[2]]
MatchReads == { <<0, 0>>, <<1, 0>>, <<0, 1>> }
PositionArgs ==
  { [fn |-> "matches_blacklist_item", item |-> it, which_breakpoint |-> w,
     max_mate_gap |-> g,
     fusion |-> MatchFusion(w, b, d, GeneG, amb, r)] :
      it \in PositionItems, w \in {1, 2}, g \in 0..MaxGap, b \in 0..MaxCoord,
      d \in {UPSTREAM, DOWNSTREAM}, amb \in BOOLEAN, r \in MatchReads }
RangeArgs ==
  { [fn |-> "matches_blacklist_item", item |-> it, which_breakpoint |-> w,
     max_mate_gap |-> 0,
     fusion |-> MatchFusion(w, 0, UPSTREAM, gn, amb, <<1, 0>>)] :
      it \in RangeItems, w \in {1, 2}, amb \in BOOLEAN,
      gn \in { x \in MatchGenes : x.start <= x.end } }

\* ------------------------------------------------------------------------
\* State
\* ------------------------------------------------------------------------

VARIABLES
  pc,             \* where the caller of filter_blacklisted_ranges stands
  fusions,        \* fusions_t: the collection, tagged in place
  entry,          \* the collection as it was handed to the first call
  index,          \* fusions_by_coordinate of the call in progress
  blacklist,      \* the lines of the blacklist file read so far
  max_mate_gap,   \* parameter of the calls
  evalue_cutoff,  \* parameter of the calls
  calls,          \* what each finished call left: [fusions, remaining]
  args,           \* the arguments of a call of one of the pure functions
  ret             \* its result

vars == <<pc, fusions, entry, index, blacklist, max_mate_gap, evalue_cutoff,
          calls, args, ret>>
driverVars == <<pc, fusions, entry, index, blacklist, max_mate_gap, evalue_cutoff, calls>>

NoCall == [fn |-> "none"]
Pending == [done |-> FALSE]

\* ------------------------------------------------------------------------
\* The filter called on a fusion collection, then called again
\* ------------------------------------------------------------------------

Init ==
  /\ pc = "called"
  /\ fusions \in FusionCollections(NumFusions)
  /\ entry = fusions
  /\ index = << >>
  /\ blacklist = << >>
  /\ max_mate_gap \in 0..MaxGap
  /\ evalue_cutoff = 30
  /\ calls = << >>
  /\ args = NoCall
  /\ ret = Pending

\* the first loop: index the fusions by coordinate
IndexFusions ==
  /\ pc = "called"
  /\ index' = BuildIndex(fusions)
  /\ pc' = "reading"
  /\ UNCHANGED <<fusions, entry, blacklist, max_mate_gap, evalue_cutoff, calls, args, ret>>

\* getline returns the next line of the file, and the loop body runs on it
ReadLine ==
  /\ pc = "reading"
  /\ Len(blacklist) < MaxLines
  /\ \E line \in LinePool :
       LET st == ApplyLine([fusions |-> fusions, index |-> index], line,
                           evalue_cutoff, max_mate_gap)
       IN  /\ blacklist' = Append(blacklist, line)
           /\ fusions' = st.fusions
           /\ index' = st.index
  /\ UNCHANGED <<pc, entry, max_mate_gap, evalue_cutoff, calls, args, ret>>

\* getline fails at the end of the file: count the remaining fusions, return
Return ==
  /\ pc = "reading"
  /\ calls' = Append(calls, [fusions |-> fusions, remaining |-> CountRemaining(fusions)])
  /\ pc' = "returned"
  /\ UNCHANGED <<fusions, entry, index, blacklist, max_mate_gap, evalue_cutoff, args, ret>>

\* the filter is called a second time, on the collection the first call
\* left, with the same blacklist file and parameters
CallAgain ==
  /\ pc = "returned"
  /\ Len(calls) = 1
  /\ LET r == FilterBlacklistedRanges(fusions, blacklist, evalue_cutoff, max_mate_gap)
     IN  /\ fusions' = r.fusions
         /\ calls' = Append(calls, r)
  /\ UNCHANGED <<pc, entry, index, blacklist, max_mate_gap, evalue_cutoff, args, ret>>

Next == IndexFusions \/ ReadLine \/ Return \/ CallAgain

Spec == Init /\ [][Next]_vars

\* ------------------------------------------------------------------------
\* parse_blacklist_item called on one token
\* ------------------------------------------------------------------------

PureDriver ==
  /\ pc = "pure"
  /\ fusions = << >>
  /\ entry = << >>
  /\ index = << >>
  /\ blacklist = << >>
  /\ max_mate_gap = 0
  /\ evalue_cutoff = 30
  /\ calls = << >>

InitParse ==
  /\ PureDriver
  /\ args \in { [fn |-> "parse_blacklist_item", text |-> t, allow_keyword |-> k] :
                  t \in ParseTokens, k \in BOOLEAN }
  /\ ret = Pending

ParseCall ==
  /\ args.fn = "parse_blacklist_item"
  /\ ~ret.done
  /\ LET r == ParseBlacklistItem(args.text, args.allow_keyword)
     IN  ret' = [done |-> TRUE, ok |-> r.ok, item |-> r.item]
  /\ UNCHANGED <<driverVars, args>>

SpecParse == InitParse /\ [][ParseCall]_vars

\* ------------------------------------------------------------------------
\* matches_blacklist_item called on a POSITION or a RANGE item
\* ------------------------------------------------------------------------

InitMatch ==
  /\ PureDriver
  /\ args \in PositionArgs \cup RangeArgs
  /\ ret = Pending

MatchCall ==
  /\ args.fn = "matches_blacklist_item"
  /\ ~ret.done
  /\ ret' = [done |-> TRUE,
             matches |-> MatchesBlacklistItem(args.item, args.fusion, args.which_breakpoint,
                                              evalue_cutoff, args.max_mate_gap)]
  /\ UNCHANGED <<driverVars, args>>

SpecMatch == InitMatch /\ [][MatchCall]_vars

\* ------------------------------------------------------------------------
\* Properties
\* ------------------------------------------------------------------------

\* the first call is in progress or has just returned
InFirstCall == pc \in {"reading", "returned"} /\ Len(calls) <= 1

\* the first call has returned (it may return after any number of lines)
FirstCallReturned == pc = "returned" /\ Len(calls) = 1

\* both tokens resolve, p1 and p2 being what parse_blacklist_item made of them
BothResolve(p1, p2) == p1.ok /\ p2.ok

\* both tokens of the line resolve (and the line is no comment)
LineCompiles(line) ==
  /\ ~IsComment(line)
  /\ BothResolve(TokenItem(line[1], FALSE), TokenItem(line[2], TRUE))

\* the items p1, p2 of a line resolve and condemn the fusion
ItemsCondemn(p1, p2, fusion) ==
  /\ BothResolve(p1, p2)
  /\ LineMatches(p1.item, p2.item, fusion, evalue_cutoff, max_mate_gap)

\* the line condemns the fusion: its items against the two breakpoints
Condemns(line, fusion) ==
  /\ ~IsComment(line)
  /\ ItemsCondemn(TokenItem(line[1], FALSE), TokenItem(line[2], TRUE), fusion)

\* the fusion is already filtered and has no genomic support
FilteredWithoutSupport(fusion) ==
  fusion.filter # NULL /\ fusion.closest_genomic_breakpoint1 < 0

\* the fusions a scan of every indexed fusion against every line would tag
BruteForceTagged ==
  { f \in 1..NumFusions :
      /\ ~FilteredWithoutSupport(entry[f])
      /\ \E k \in 1..Len(blacklist) : Condemns(blacklist[k], entry[f]) }

\* the fusions whose tag the call has set
TaggedByCall == { f \in 1..NumFusions : fusions[f].filter # entry[f].filter }

\* the members of all bucket sets
InSomeBucket == UNION { index[k] : k \in DOMAIN index }

\* C1: with every gene on the contig of its breakpoint, the fusions the
\* bucketed lookup has tagged 'blacklist' are exactly the indexed fusions
\* that some compiled line of the blacklist condemns, whatever max_mate_gap
\* (a lookup range starting below 0 and coordinates on a multiple of the
\* bucket size included).
C1_IndexNeverMisses ==
  FirstCallReturned =>
    /\ TaggedByCall = BruteForceTagged
    /\ \A f \in TaggedByCall : fusions[f].filter = FILTER_blacklist

\* C1 witness: with max_mate_gap = 1 a line with a rule next to a bucket
\* boundary and a rule at the first base of a contig, looked up from -1,
\* has tagged the fusion with a breakpoint on the boundary and the other
\* one base from the start of the contig.
C1_Witness ==
  /\ FirstCallReturned
  /\ max_mate_gap = 1
  /\ blacklist = <<Line_c100000_d1>>
  /\ \E f \in 1..NumFusions :
       entry[f] = FusionC /\ fusions[f].filter = FILTER_blacklist
  /\ TaggedByCall # {}

\* C2: a second call on the collection the first call left, with the same
\* blacklist and parameters, returns the same survivor count and changes
\* no filter tag.
C2_Idempotent ==
  Len(calls) = 2 =>
    /\ calls[2].remaining = calls[1].remaining
    /\ \A f \in 1..NumFusions :
         calls[2].fusions[f].filter = calls[1].fusions[f].filter

\* C2 witness: the second call has returned after a first call that tagged
\* a fusion and left another one untagged.
C2_Witness ==
  /\ Len(calls) = 2
  /\ calls[1].remaining < CountRemaining(entry)
  /\ calls[1].remaining > 0
  /\ \E f \in 1..NumFusions :
       entry[f].filter = NULL /\ calls[1].fusions[f].filter = FILTER_blacklist

\* the call whose blacklist ends with the line `c:1000 any`, and the same
\* call without that last line
EndsWith_c1000_any ==
  /\ pc = "returned"
  /\ Len(calls) = 1
  /\ max_mate_gap = 0
  /\ Len(blacklist) >= 1
  /\ blacklist[Len(blacklist)] = Line_c1000_any
WithoutLastLine ==
  FilterBlacklistedRanges(entry, SubSeq(blacklist, 1, Len(blacklist) - 1),
                          evalue_cutoff, max_mate_gap)
\* the fusions the shorter blacklist leaves untagged with breakpoint1 at
\* 0-based position p of contig c (chr1)
UntaggedAt(p) ==
  { f \in 1..NumFusions :
      /\ WithoutLastLine.fusions[f].filter = NULL
      /\ entry[f].contig1 = 0
      /\ entry[f].breakpoint1 = p }

\* C3 as stated: the line `chr1:1000 any` with max_mate_gap = 0 tags the
\* untagged fusion with contig1 = chr1 and breakpoint1 = 1000, and the
\* survivor count is one less for it.
C3_Original ==
  EndsWith_c1000_any =>
    /\ \A f \in UntaggedAt(1000) : fusions[f].filter = FILTER_blacklist
    /\ calls[1].remaining = WithoutLastLine.remaining - Cardinality(UntaggedAt(1000))

\* C3 as amended: the line `chr1:1000 any` with max_mate_gap = 0 tags the
\* untagged fusions whose breakpoint1 is 999 on chr1, the 0-based
\* coordinate of the file's 1-based 1000, and the survivor count is one
\* less for each of them than it would be without the line.
C3_PositionRuleZeroBased ==
  EndsWith_c1000_any =>
    /\ \A f \in UntaggedAt(999) : fusions[f].filter = FILTER_blacklist
    /\ calls[1].remaining = WithoutLastLine.remaining - Cardinality(UntaggedAt(999))

\* C3 witness: the line has tagged exactly one fusion, with breakpoint1 =
\* 999 and gene1 = [900, 1100], and a survivor remains.
C3_Witness ==
  /\ EndsWith_c1000_any
  /\ Cardinality(UntaggedAt(999)) = 1
  /\ \A f \in UntaggedAt(999) :
       entry[f] = FusionB /\ fusions[f].filter = FILTER_blacklist
  /\ calls[1].remaining = WithoutLastLine.remaining - 1
  /\ calls[1].remaining > 0

\* the lines of the blacklist in which both tokens resolve
CompiledLines == SelectSeq(blacklist, LineCompiles)

\* C4: a line with a token that fails to resolve is skipped as a whole:
\* whatever the line the call returns after, the tags and the index are
\* what the blacklist without its failing lines produces, so a failing line
\* changes no tag, removes nothing from the index and does not disturb the
\* lines after it.
C4_BadLineSkipped ==
  FirstCallReturned /\ Len(blacklist) >= 1 =>
    LET st == ApplyLines([fusions |-> entry, index |-> BuildIndex(entry)],
                         CompiledLines, 1, evalue_cutoff, max_mate_gap)
    IN  fusions = st.fusions /\ index = st.index

\* C4 witness: a line with one token only, then a line that tags a fusion.
C4_Witness ==
  /\ FirstCallReturned
  /\ blacklist = <<Line_one_token, Line_c1000_any>>
  /\ TaggedByCall # {}

\* the prefix of a token and the strand it stands for
PrefixStrand(pre) ==
  IF pre = <<"+">> THEN <<TRUE, FORWARD>>
  ELSE IF pre = <<"-">> THEN <<TRUE, REVERSE>>
  ELSE <<FALSE, FORWARD>>

\* C5 as stated: every token [prefix]c:p with c in the catalog, p >= 1 and
\* prefix none, '+' or '-' parses into a POSITION item on c with start =
\* end = p - 1 and the strand of the prefix.
C5_Original ==
  \A pre \in ParsePrefixes, n \in ContigNames, p \in ParsePositions :
    (ret.done /\ args.fn = "parse_blacklist_item"
       /\ args.text = PositionToken(pre, n, p)) =>
      /\ ret.ok
      /\ ret.item.type = BLACKLIST_POSITION
      /\ ret.item.contig = ContigOf(n)
      /\ ret.item.start = p - 1
      /\ ret.item.end = p - 1
      /\ ret.item.strand_defined = PrefixStrand(pre)[1]
      /\ ret.item.strand_defined => ret.item.strand = PrefixStrand(pre)[2]

\* the gene and the breakpoint a matching run tests
TestedGene == IF args.which_breakpoint = 1 THEN args.fusion.gene1 ELSE args.fusion.gene2
TestedBreakpoint ==
  IF args.which_breakpoint = 1 THEN args.fusion.breakpoint1 ELSE args.fusion.breakpoint2
TestedDirection ==
  IF args.which_breakpoint = 1 THEN args.fusion.direction1 ELSE args.fusion.direction2
\* the item passes the contig and strand gate of the tested breakpoint
PassesGate ==
  /\ args.item.contig = 0
  /\ \/ ~args.item.strand_defined
     \/ args.fusion.predicted_strands_ambiguous
     \/ args.item.strand = FORWARD

Min(a, b) == IF a <= b THEN a ELSE b
Max(a, b) == IF a >= b THEN a ELSE b
\* the number of bases two inclusive intervals share
IntersectionLength(s1, e1, s2, e2) == Max(0, Min(e1, e2) - Max(s1, s2) + 1)

\* C6 as stated: a RANGE item that passes the gate matches iff the part of
\* the gene inside the range is more than half of the gene.
C6_Original ==
  (ret.done /\ args.fn = "matches_blacklist_item"
     /\ args.item.type = BLACKLIST_RANGE /\ args.item.start < args.item.end
     /\ PassesGate) =>
    (ret.matches <=>
       2 * IntersectionLength(TestedGene.start, TestedGene.end,
                              args.item.start, args.item.end)
         > TestedGene.end - TestedGene.start + 1)

\* C7: a POSITION item that passes the gate matches a fusion without split
\* reads iff the breakpoint lies in [start - max_mate_gap, start] for a
\* DOWNSTREAM breakpoint and in [start, start + max_mate_gap] for an
\* UPSTREAM one; with a split read on either side only the breakpoint
\* equal to start matches.
C7_MateGapWindow ==
  (ret.done /\ args.fn = "matches_blacklist_item"
     /\ args.item.type = BLACKLIST_POSITION /\ PassesGate) =>
    LET b == TestedBreakpoint
        s == args.item.start
        g == args.max_mate_gap
    IN  IF args.fusion.split_reads1 = 0 /\ args.fusion.split_reads2 = 0
          THEN IF TestedDirection = DOWNSTREAM
                 THEN ret.matches <=> (s - g <= b /\ b <= s)
                 ELSE ret.matches <=> (s <= b /\ b <= s + g)
          ELSE ret.matches <=> (b = s)

\* C7 witness: a DOWNSTREAM breakpoint without split reads has matched an
\* item max_mate_gap >= 1 bases to its right.
C7_Witness ==
  /\ ret.done
  /\ args.fn = "matches_blacklist_item"
  /\ args.item.type = BLACKLIST_POSITION
  /\ PassesGate
  /\ args.max_mate_gap >= 1
  /\ args.fusion.split_reads1 = 0 /\ args.fusion.split_reads2 = 0
  /\ TestedDirection = DOWNSTREAM
  /\ args.item.start = TestedBreakpoint + args.max_mate_gap
  /\ ret.matches

\* C8 as stated: a fusion whose tag is set when the call starts carries
\* that tag when the call returns, whatever closest_genomic_breakpoint1.
C8_Original ==
  (pc = "returned" /\ Len(calls) = 1) =>
    \A f \in 1..NumFusions :
      entry[f].filter # NULL => fusions[f].filter = entry[f].filter

\* C8 as amended: a fusion whose tag is set when the call starts and whose
\* closest_genomic_breakpoint1 is negative is in no bucket set and keeps
\* its tag; the same holds of the second call.
C8_FilteredWithoutGenomicSupportKept ==
  /\ InFirstCall =>
       \A f \in 1..NumFusions :
         FilteredWithoutSupport(entry[f]) =>
           f \notin InSomeBucket /\ fusions[f].filter = entry[f].filter
  /\ Len(calls) = 2 =>
       \A f \in 1..NumFusions :
         FilteredWithoutSupport(calls[1].fusions[f]) =>
           calls[2].fusions[f].filter = calls[1].fusions[f].filter

\* C8 witness: a line that tags the untagged twin of a skipped fusion has
\* run, and the skipped fusion still carries the tag of the earlier filter.
C8_Witness ==
  /\ pc = "returned"
  /\ Line_c1000_any \in Range(blacklist)
  /\ \E f, h \in 1..NumFusions :
       /\ entry[f] = FusionE /\ fusions[f].filter = FILTER_other
       /\ entry[h] = FusionB /\ fusions[h].filter = FILTER_blacklist

\* C9 as stated: every item parse_blacklist_item produces has start = end
\* if it is a POSITION and start < end if it is a RANGE.
C9_Original ==
  (ret.done /\ args.fn = "parse_blacklist_item" /\ ret.ok) =>
    /\ ret.item.type = BLACKLIST_POSITION => ret.item.start = ret.item.end
    /\ ret.item.type = BLACKLIST_RANGE => ret.item.start < ret.item.end

\* C10 as stated: once a line has set a fusion's tag to 'blacklist', no
\* bucket set of the index contains the fusion.
C10_Original ==
  pc = "reading" =>
    \A f \in TaggedByCall : f \notin InSomeBucket

====
